---- MODULE Spec2Model ----
(***************************************************************************)
(* Model of the vtt_to_srt converter (variant 1: vtt_to_srt/vtt_to_srt.py, *)
(* variant 2: vtt_to_srt2/vtt_to_srt_2.py).                                *)
(*                                                                         *)
(* A text is a sequence of one-character strings.  Every regular           *)
(* expression of the source is translated to a matcher over such           *)
(* sequences that follows Python's backtracking order (greedy counts       *)
(* first), and re.sub is the left-to-right scan ReSub.                     *)
(***************************************************************************)
EXTENDS Integers, Sequences, FiniteSets, TLC

VARIABLES
    variant,    \* 1: vtt_to_srt.py, 2: vtt_to_srt_2.py
    pc,         \* position of the run
    parts,      \* the pieces a timestamp line was built from (SpecTs)
    contents,   \* the text handed to the function under study
    result,     \* what the function returned (or the exception it raised)
    result2,    \* what a second application returned
    fs,         \* the file system: path -> file record
    walk,       \* the directory listing still to visit
    io,         \* which opens fail: decode, first write, fallback write
    log,        \* the diagnostics printed so far
    trace       \* the file operations performed so far

vars == <<variant, pc, parts, contents, result, result2, fs, walk, io, log, trace>>

----------------------------------------------------------------------------
(* Characters and character classes                                        *)

NL == "\n"

Digit == {"0", "1", "2", "3", "4", "5", "6", "7", "8", "9"}

Letter ==
    {"a", "b", "c", "d", "e", "f", "g", "h", "i", "j", "k", "l", "m",
     "n", "o", "p", "q", "r", "s", "t", "u", "v", "w", "x", "y", "z",
     "A", "B", "C", "D", "E", "F", "G", "H", "I", "J", "K", "L", "M",
     "N", "O", "P", "Q", "R", "S", "T", "U", "V", "W", "X", "Y", "Z"}

\* \w
WordCh == Digit \cup Letter \cup {"_"}

\* [ \-\w]
SettingNameCh == {" ", "-"} \cup WordCh

\* [\w\%\d:,.]
SettingValueCh == WordCh \cup {"%", ":", ",", "."}

\* [.\w\d]
TagCh == WordCh \cup {"."}

\* [\-\w]
SelectorCh == WordCh \cup {"-"}

\* [\-.\w\d]
SelectorArgCh == WordCh \cup {"-", "."}

\* [.,:;\(\) \-\w\d]
StyleBodyCh == WordCh \cup {".", ",", ":", ";", "(", ")", " ", "-"}

Arrow == <<" ", "-", "-", ">", " ">>

\* The character at position i, "" past the end (no class holds "").
At(s, i) == IF i >= 1 /\ i <= Len(s) THEN s[i] ELSE ""

\* The literal lit stands at position i.
MatchLit(s, i, lit) == \A j \in 1..Len(lit) : At(s, i + j - 1) = lit[j]

\* The least element of a non-empty set of integers.
Min(S) == CHOOSE x \in S : \A y \in S : x <= y

\* The position after the longest run of cls characters starting at i.
SpanEnd(s, i, cls) == Min({j \in i..(Len(s) + 1) : At(s, j) \notin cls})

NoMatch == [ok |-> FALSE, end |-> 0, repl |-> <<>>]

Matched(e, r) == [ok |-> TRUE, end |-> e, repl |-> r]

----------------------------------------------------------------------------
(* The timestamp patterns                                                  *)
(*   $a<sep>$b --> $a<sep>$b(?:[ \-\w]+:[\w\%\d:,.]+)*\n                   *)
(* with $a = ((?:\d\d:){lo,hi}\d\d) and $b = (\d{0,3}).                    *)

\* (?:\d\d:){k}\d\d at i: the position after it, 0 when it does not match.
RECURSIVE MatchFields(_, _, _)
MatchFields(s, i, k) ==
    IF ~(At(s, i) \in Digit /\ At(s, i + 1) \in Digit) THEN 0
    ELSE IF k = 0 THEN i + 2
    ELSE IF At(s, i + 2) = ":" THEN MatchFields(s, i + 3, k - 1)
    ELSE 0

\* n digits stand at i.
DigitsAt(s, i, n) == \A j \in 0..(n - 1) : At(s, i + j) \in Digit

\* One step of the automaton of (?:[ \-\w]+:[\w\%\d:,.]+)* on character c.
\* State 0: before any group; 1: inside a name; 2: after the colon;
\* 3: inside a value (a further group may start).
SettingsStep(q, c) ==
    {1 : x \in {y \in q : y \in {0, 1, 3} /\ c \in SettingNameCh}}
    \cup {2 : x \in {y \in q : y = 1 /\ c = ":"}}
    \cup {3 : x \in {y \in q : y \in {2, 3} /\ c \in SettingValueCh}}

\* (?:[ \-\w]+:[\w\%\d:,.]+)*\n at i: the position after the newline, 0 when
\* it does not match.  No class holds the newline, so the match can only end
\* at the first newline.
RECURSIVE SettingsTail(_, _, _)
SettingsTail(s, i, q) ==
    IF i > Len(s) \/ q = {} THEN 0
    ELSE IF s[i] = NL THEN (IF q \cap {0, 3} # {} THEN i + 1 ELSE 0)
    ELSE SettingsTail(s, i + 1, SettingsStep(q, s[i]))

\* The separator between $a and $b: "." of find_vtt is the regex dot (any
\* character but the newline), "," of find_srt is the comma itself.
SepOk(c, anyChar) == IF anyChar THEN c # "" /\ c # NL ELSE c = ","

StampRepl(pad, g1, g2, g3, g4) ==
    pad \o g1 \o <<",">> \o g2 \o Arrow \o pad \o g3 \o <<",">> \o g4 \o <<NL>>

\* The second (\d{0,3}), n digits first, then the settings and the newline.
RECURSIVE TryMs2(_, _, _, _, _, _, _)
TryMs2(s, p, n, pad, g1, g2, g3) ==
    LET e == IF DigitsAt(s, p, n) THEN SettingsTail(s, p + n, {0}) ELSE 0
    IN  IF e # 0 THEN Matched(e, StampRepl(pad, g1, g2, g3, SubSeq(s, p, p + n - 1)))
        ELSE IF n = 0 THEN NoMatch
        ELSE TryMs2(s, p, n - 1, pad, g1, g2, g3)

\* The second $a, ks[j] repetitions of \d\d: first.
RECURSIVE TryFields2(_, _, _, _, _, _, _, _)
TryFields2(s, p, ks, j, anyChar, pad, g1, g2) ==
    IF j > Len(ks) THEN NoMatch
    ELSE LET e == MatchFields(s, p, ks[j])
             r == IF e # 0 /\ SepOk(At(s, e), anyChar)
                  THEN TryMs2(s, e + 1, 3, pad, g1, g2, SubSeq(s, p, e - 1))
                  ELSE NoMatch
         IN  IF r.ok THEN r ELSE TryFields2(s, p, ks, j + 1, anyChar, pad, g1, g2)

\* The first (\d{0,3}), n digits first, then " --> ".
RECURSIVE TryMs1(_, _, _, _, _, _, _)
TryMs1(s, p, n, ks, anyChar, pad, g1) ==
    LET r == IF DigitsAt(s, p, n) /\ MatchLit(s, p + n, Arrow)
             THEN TryFields2(s, p + n + 5, ks, 1, anyChar, pad, g1,
                             SubSeq(s, p, p + n - 1))
             ELSE NoMatch
    IN  IF r.ok THEN r
        ELSE IF n = 0 THEN NoMatch
        ELSE TryMs1(s, p, n - 1, ks, anyChar, pad, g1)

\* The first $a, ks[j] repetitions of \d\d: first.
RECURSIVE TryFields1(_, _, _, _, _, _)
TryFields1(s, i, ks, j, anyChar, pad) ==
    IF j > Len(ks) THEN NoMatch
    ELSE LET e == MatchFields(s, i, ks[j])
             r == IF e # 0 /\ SepOk(At(s, e), anyChar)
                  THEN TryMs1(s, e + 1, 3, ks, anyChar, pad, SubSeq(s, i, e - 1))
                  ELSE NoMatch
         IN  IF r.ok THEN r ELSE TryFields1(s, i, ks, j + 1, anyChar, pad)

\* find_vtt with a = ((?:\d\d:){0,2}\d\d), replaced by \1,\2 --> \3,\4\n
MatchFindVtt(s, i) == TryFields1(s, i, <<2, 1, 0>>, 1, TRUE, <<>>)

\* find_srt with a = minute, replaced by 00:\1,\2 --> 00:\3,\4\n
MatchPaddingMinute(s, i) == TryFields1(s, i, <<1>>, 1, FALSE, <<"0", "0", ":">>)

\* find_srt with a = second, replaced by 00:00:\1,\2 --> 00:00:\3,\4\n
MatchPaddingSecond(s, i) ==
    TryFields1(s, i, <<0>>, 1, FALSE, <<"0", "0", ":", "0", "0", ":">>)

----------------------------------------------------------------------------
(* The header and markup patterns                                          *)

\* WEBVTT\n
MatchWebvtt(s, i) ==
    IF MatchLit(s, i, <<"W", "E", "B", "V", "T", "T", NL>>)
    THEN Matched(i + 7, <<>>) ELSE NoMatch

\* <key>[ \-\w]+\n
MatchHeaderLine(s, i, key) ==
    LET b == i + Len(key)
        e == SpanEnd(s, b, SettingNameCh)
    IN  IF MatchLit(s, i, key) /\ e > b /\ At(s, e) = NL
        THEN Matched(e + 1, <<>>) ELSE NoMatch

\* <c[.\w\d]*>
MatchCTag(s, i) ==
    LET e == SpanEnd(s, i + 2, TagCh)
    IN  IF MatchLit(s, i, <<"<", "c">>) /\ At(s, e) = ">"
        THEN Matched(e + 1, <<>>) ELSE NoMatch

\* </c>
MatchCClose(s, i) ==
    IF MatchLit(s, i, <<"<", "/", "c", ">">>) THEN Matched(i + 4, <<>>) ELSE NoMatch

\* <\d\d:\d\d:\d\d.\d\d\d>   (the dot is the regex dot)
MatchKaraoke(s, i) ==
    LET e == MatchFields(s, i + 1, 2)
    IN  IF /\ At(s, i) = "<"
           /\ e # 0
           /\ SepOk(At(s, e), TRUE)
           /\ DigitsAt(s, e + 1, 3)
           /\ At(s, e + 4) = ">"
        THEN Matched(e + 5, <<>>) ELSE NoMatch

\* ::[\-\w]+\([\-.\w\d]+\)[ ]*{[.,:;\(\) \-\w\d]+\n }\n
MatchStyleRule(s, i) ==
    LET a == SpanEnd(s, i + 2, SelectorCh)
        b == SpanEnd(s, a + 1, SelectorArgCh)
        c == SpanEnd(s, b + 1, {" "})
        d == SpanEnd(s, c + 1, StyleBodyCh)
    IN  IF /\ MatchLit(s, i, <<":", ":">>)
           /\ a > i + 2 /\ At(s, a) = "("
           /\ b > a + 1 /\ At(s, b) = ")"
           /\ At(s, c) = "{"
           /\ d > c + 1 /\ MatchLit(s, d, <<NL, " ", "}", NL>>)
        THEN Matched(d + 4, <<>>) ELSE NoMatch

\* Style:\n##\n
MatchStyleMark(s, i) ==
    IF MatchLit(s, i, <<"S", "t", "y", "l", "e", ":", NL, "#", "#", NL>>)
    THEN Matched(i + 10, <<>>) ELSE NoMatch

MatchAt(kind, s, i) ==
    CASE kind = "find_vtt" -> MatchFindVtt(s, i)
      [] kind = "padding_minute" -> MatchPaddingMinute(s, i)
      [] kind = "padding_second" -> MatchPaddingSecond(s, i)
      [] kind = "webvtt" -> MatchWebvtt(s, i)
      [] kind = "kind" -> MatchHeaderLine(s, i, <<"K", "i", "n", "d", ":">>)
      [] kind = "language" ->
            MatchHeaderLine(s, i, <<"L", "a", "n", "g", "u", "a", "g", "e", ":">>)
      [] kind = "c_tag" -> MatchCTag(s, i)
      [] kind = "c_close" -> MatchCClose(s, i)
      [] kind = "karaoke" -> MatchKaraoke(s, i)
      [] kind = "style_rule" -> MatchStyleRule(s, i)
      [] kind = "style_mark" -> MatchStyleMark(s, i)

\* re.sub(pattern, replacement, s): the leftmost match at or after i is
\* replaced and the scan goes on after it; what lies between is copied.
\* cand holds the positions where the pattern matches.
RECURSIVE ReSubFrom(_, _, _, _, _)
ReSubFrom(kind, s, i, acc, cand) ==
    LET next == {j \in cand : j >= i}
        j == Min(next)
        m == MatchAt(kind, s, j)
    IN  IF next = {} THEN acc \o SubSeq(s, i, Len(s))
        ELSE ReSubFrom(kind, s, m.end, acc \o SubSeq(s, i, j - 1) \o m.repl, cand)

ReSub(kind, s) ==
    ReSubFrom(kind, s, 1, <<>>, {j \in 1..Len(s) : MatchAt(kind, s, j).ok})

\* The substitutions of the patterns kinds, applied one after the other.
RECURSIVE ReSubEach(_, _)
ReSubEach(kinds, s) ==
    IF Len(kinds) = 0 THEN s
    ELSE ReSubEach(Tail(kinds), ReSub(kinds[1], s))

----------------------------------------------------------------------------
(* Values returned by a call: the text, or the exception raised            *)

Ret(text) == [exc |-> "none", text |-> text]

Raise(e) == [exc |-> e, text |-> <<>>]

NoResult == [exc |-> "pending", text |-> <<>>]

NoParts == [prefix |-> <<>>, left |-> 0, right |-> 0, ss |-> <<>>,
            settings |-> <<>>, term |-> FALSE]

----------------------------------------------------------------------------
(* VttToStr: the text transforms                                           *)

convert_header(text) == ReSubEach(<<"webvtt", "kind", "language">>, text)

\* A padding that forgets the seconds-only shape.
add_padding_minute_only(text) == ReSubEach(<<"padding_minute">>, text)

add_padding_to_timestamp(text) ==
    ReSubEach(<<"padding_minute", "padding_second">>, text)

\* re.sub(all_timestamp, r"\1,\2 --> \3,\4\n", contents)
swap_separator(text) == ReSubEach(<<"find_vtt">>, text)

convert_timestamp(text) == add_padding_to_timestamp(swap_separator(text))

\* contents.split('\n'): the pieces between the newlines, one more than
\* there are newlines.
Split(s) ==
    LET nl == {i \in 1..Len(s) : s[i] = NL}
        cut == nl \cup {0, Len(s) + 1}
        nth(k) == CHOOSE c \in cut : Cardinality({d \in cut : d < c}) = k
    IN  [k \in 1..(Cardinality(nl) + 1) |-> SubSeq(s, nth(k - 1) + 1, nth(k) - 1)]

\* '\n'.join(lines)
RECURSIVE Join(_)
Join(lines) ==
    IF Len(lines) = 0 THEN <<>>
    ELSE IF Len(lines) = 1 THEN lines[1]
    ELSE lines[1] \o <<NL>> \o Join(Tail(lines))

\* str(n) of a natural number
RECURSIVE Str(_)
Str(n) ==
    LET d == <<"0", "1", "2", "3", "4", "5", "6", "7", "8", "9">>[(n % 10) + 1]
    IN  IF n < 10 THEN <<d>> ELSE Append(Str(n \div 10), d)

\* re.match(r"((\d\d:){2}\d\d),(\d{3}) --> ((\d\d:){2}\d\d),(\d{3})", line):
\* the pattern stands at the start of the line; what follows it is free.
has_timestamp(line) ==
    /\ MatchFields(line, 1, 2) = 9
    /\ At(line, 9) = ","
    /\ DigitsAt(line, 10, 3)
    /\ MatchLit(line, 13, Arrow)
    /\ MatchFields(line, 18, 2) = 26
    /\ At(line, 26) = ","
    /\ DigitsAt(line, 27, 3)

\* re.match(r"^\d+$", line) on a line that holds no newline
SimpleIdentifier(line) == Len(line) > 0 /\ \A j \in 1..Len(line) : line[j] \in Digit

\* A numbering that never increments its counter.
RECURSIVE AddSequenceNoIncrement(_, _, _, _)
AddSequenceNoIncrement(lines, k, counter, out) ==
    IF k > Len(lines) THEN out
    ELSE IF has_timestamp(lines[k])
         THEN AddSequenceNoIncrement(lines, k + 1, counter,
                                     out \o Str(counter) \o <<NL>> \o lines[k] \o <<NL>>)
         ELSE AddSequenceNoIncrement(lines, k + 1, counter, out \o lines[k] \o <<NL>>)

RECURSIVE AddSequenceFrom(_, _, _, _)
AddSequenceFrom(lines, k, counter, out) ==
    IF k > Len(lines) THEN out
    ELSE IF has_timestamp(lines[k])
         THEN AddSequenceFrom(lines, k + 1, counter + 1,
                              out \o Str(counter) \o <<NL>> \o lines[k] \o <<NL>>)
         ELSE AddSequenceFrom(lines, k + 1, counter, out \o lines[k] \o <<NL>>)

add_sequence_numbers(text) == AddSequenceFrom(Split(text), 1, 1, <<>>)

\* The while loop of remove_blank_lines; num is the 1-based index of
\* lines[num] (python's num == 0 is num = 1 here).
RECURSIVE RemoveBlankFrom(_, _, _)
RemoveBlankFrom(lines, num, out) ==
    IF num > Len(lines)
    THEN (IF Len(out) = 0 THEN Raise("IndexError")
          ELSE Ret(Join(SubSeq(out, 1, Len(out) - 1))))
    ELSE IF SimpleIdentifier(lines[num]) /\ num + 1 > Len(lines)
    THEN Raise("IndexError")
    ELSE IF SimpleIdentifier(lines[num]) /\ has_timestamp(lines[num + 1])
    THEN RemoveBlankFrom(lines, num + 2,
            (IF num = 1 THEN out ELSE Append(out, <<>>))
                \o <<lines[num], lines[num + 1]>>)
    ELSE IF has_timestamp(lines[num])
    THEN RemoveBlankFrom(lines, num + 1,
            Append(IF num = 1 THEN out ELSE Append(out, <<>>), lines[num]))
    ELSE RemoveBlankFrom(lines, num + 1, Append(out, lines[num]))

\* A pass that keeps the empty lines of its input.
remove_blank_lines_unfiltered(text) ==
    RemoveBlankFrom(Append(Split(text), <<>>), 1, <<>>)

remove_blank_lines(text) ==
    RemoveBlankFrom(Append(SelectSeq(Split(text), LAMBDA x : x # <<>>), <<>>),
                    1, <<>>)

\* The for loop of remove_simple_identifiers; lines[i - 1] of the first line
\* is python's lines[-1], the last line.
RECURSIVE RemoveIdentifiersFrom(_, _, _)
RemoveIdentifiersFrom(lines, i, out) ==
    IF i > Len(lines) THEN Ret(Join(out))
    ELSE LET prev == IF i = 1 THEN lines[Len(lines)] ELSE lines[i - 1]
             drop == has_timestamp(lines[i]) /\ SimpleIdentifier(prev)
         IN  IF drop /\ Len(out) = 0 THEN Raise("IndexError")
             ELSE RemoveIdentifiersFrom(lines, i + 1,
                    Append(IF drop THEN SubSeq(out, 1, Len(out) - 1) ELSE out,
                           lines[i]))

\* A pass that keeps every identifier.
keep_simple_identifiers(text) == Ret(text)

remove_simple_identifiers(text) == RemoveIdentifiersFrom(Split(text), 1, <<>>)

\* The five substitutions of convert_content that follow convert_header.
strip_tags(text) ==
    ReSubEach(<<"c_tag", "c_close", "karaoke", "style_rule", "style_mark">>, text)

\* The passes the two variants share: convert_content up to the line passes.
StripMarkup(text) == strip_tags(convert_header(convert_timestamp(text)))

\* The pass that follows, applied to the text r holds unless r is an
\* exception on its way out of convert_content.
IdentifiersAfter(r) ==
    IF r.exc = "none" THEN remove_simple_identifiers(r.text) ELSE r

NumbersAfter(r) ==
    IF r.exc = "none" THEN Ret(add_sequence_numbers(r.text)) ELSE r

\* The line passes of convert_content of variant v.
LinePasses(v, text) ==
    IF v = 1 THEN Ret(add_sequence_numbers(text))
    ELSE NumbersAfter(IdentifiersAfter(remove_blank_lines(text)))

\* convert_content of variant v: the text, or the exception a pass raised.
convert_content(v, text) == LinePasses(v, StripMarkup(text))

----------------------------------------------------------------------------
(* Timestamp lines: the inputs of convert_timestamp                        *)

\* The hour and minute fields a side of shape k (0: SS.mmm, 1: MM:SS.mmm,
\* 2: HH:MM:SS.mmm) is written with.
ShapeFields(k) ==
    CASE k = 0 -> <<>>
      [] k = 1 -> <<"0", "2", ":">>
      [] k = 2 -> <<"0", "1", ":", "0", "2", ":">>

\* The fields a side of shape k lacks, as zeros.
ShapePad(k) ==
    CASE k = 0 -> <<"0", "0", ":", "0", "0", ":">>
      [] k = 1 -> <<"0", "0", ":">>
      [] k = 2 -> <<>>

LeftMs == <<"0", "0", "4">>
RightSs == <<"0", "5">>
RightMs == <<"0", "0", "6">>

SecondsSet == {<<"0", "3">>, <<"5", "9">>}

SettingsSet ==
    { <<>>,
      <<" ","a","l","i","g","n",":","s","t","a","r","t">>,
      <<" ","a","l","i","g","n",":","s","t","a","r","t",
        " ","p","o","s","i","t","i","o","n",":","1","0","%">>,
      <<" ","p","o","s","i","t","i","o","n",":","1","0","%",",",
        "l","i","n","e","-","l","e","f","t">> }

PrefixSet == {<<>>, <<"1", NL>>}

TsParts ==
    [prefix : PrefixSet, left : 0..2, right : 0..2, ss : SecondsSet,
     settings : SettingsSet, term : BOOLEAN]

\* The timestamp line of the pieces p, with separator sep ("." in VTT).
TsLine(p, sep) ==
    ShapeFields(p.left) \o p.ss \o <<sep>> \o LeftMs \o Arrow
        \o ShapeFields(p.right) \o RightSs \o <<sep>> \o RightMs

TsInput(p) ==
    p.prefix \o TsLine(p, ".") \o p.settings \o (IF p.term THEN <<NL>> ELSE <<>>)

\* The SRT line the pieces p stand for: each side's missing fields are 00.
TsExpected(p) ==
    ShapePad(p.left) \o ShapeFields(p.left) \o p.ss \o <<",">> \o LeftMs \o Arrow
        \o ShapePad(p.right) \o ShapeFields(p.right) \o RightSs \o <<",">> \o RightMs

IdleIO ==
    /\ fs = {}
    /\ walk = <<>>
    /\ io = <<>>
    /\ log = <<>>
    /\ trace = <<>>

InitTs ==
    /\ variant \in {1, 2}
    /\ pc = "ts_ready"
    /\ parts \in TsParts
    /\ contents = TsInput(parts)
    /\ result = NoResult
    /\ result2 = NoResult
    /\ IdleIO

\* convert_timestamp(contents)
ConvertTimestampCall ==
    /\ pc = "ts_ready"
    /\ result' = Ret(convert_timestamp(contents))
    /\ pc' = "ts_done"
    /\ UNCHANGED <<variant, parts, contents, result2, fs, walk, io, log, trace>>

NextTs == ConvertTimestampCall

SpecTs == InitTs /\ [][NextTs]_vars

----------------------------------------------------------------------------
(* Documents: the inputs of the line passes and of convert_content         *)

MaxLines == 3

MaxCues == 11

\* A cue timestamp line in SRT shape, as add_sequence_numbers recognizes it.
SrtLine ==
    <<"0","0",":","0","0",":","0","1",",","0","0","0"," ","-","-",">"," ",
      "0","0",":","0","0",":","0","2",",","0","0","0">>

\* A cue timestamp line in VTT shape, hour omitted.
VttLine ==
    <<"0","0",":","0","1",".","0","0","0"," ","-","-",">"," ",
      "0","0",":","0","2",".","0","0","0">>

Blank == <<>>

Identifier == <<"7">>

TaggedText == <<"<","c",">","h","i","<","/","c",">">>

Header == <<"W","E","B","V","T","T">>

\* The lines documents are made of.
LineSet == {Blank, Identifier, TaggedText, SrtLine, VttLine, Header}

\* All sequences over S of length at most n.
SeqUpTo(S, n) == UNION {[1..k -> S] : k \in 0..n}

\* The text of the lines: joined by newlines, with a final newline or not.
TextOf(lines, term) == Join(lines) \o (IF term /\ Len(lines) > 0 THEN <<NL>> ELSE <<>>)

DocParts(lines, term) ==
    [prefix |-> <<>>, left |-> 0, right |-> 0, ss |-> <<>>,
     settings |-> lines, term |-> term]

\* The lines of a text that ends with a newline (python's split yields one
\* more, empty, piece after the last newline).
LinesOf(text) ==
    LET pieces == Split(text) IN SubSeq(pieces, 1, Len(pieces) - 1)

\* The number a line of digits denotes.
RECURSIVE Value(_)
Value(line) ==
    LET d(c) == CHOOSE n \in 0..9 : <<"0","1","2","3","4","5","6","7","8","9">>[n + 1] = c
    IN  IF Len(line) = 0 THEN 0
        ELSE 10 * Value(SubSeq(line, 1, Len(line) - 1)) + d(line[Len(line)])

\* The line is the plain decimal text of n: digits only, no leading zero.
IsDecimalOf(line, n) ==
    /\ SimpleIdentifier(line)
    /\ (Len(line) > 1 => line[1] # "0")
    /\ Value(line) = n

\* How many of the first k lines has_timestamp recognizes.
Rank(lines, k) == Cardinality({j \in 1..k : has_timestamp(lines[j])})

InitSeq ==
    /\ variant \in {1, 2}
    /\ pc = "seq_ready"
    /\ \E term \in BOOLEAN :
         \/ \E lines \in SeqUpTo(LineSet \ {Header}, MaxLines) :
               /\ parts = DocParts(lines, term)
               /\ contents = TextOf(lines, term)
         \/ \E n \in (MaxLines + 1)..MaxCues :
               /\ parts = DocParts([k \in 1..n |-> SrtLine], term)
               /\ contents = TextOf([k \in 1..n |-> SrtLine], term)
    /\ result = NoResult
    /\ result2 = NoResult
    /\ IdleIO

\* add_sequence_numbers(contents)
AddSequenceNumbersCall ==
    /\ pc = "seq_ready"
    /\ result' = Ret(add_sequence_numbers(contents))
    /\ pc' = "seq_done"
    /\ UNCHANGED <<variant, parts, contents, result2, fs, walk, io, log, trace>>

NextSeq == AddSequenceNumbersCall

SpecSeq == InitSeq /\ [][NextSeq]_vars

InitConv ==
    /\ variant \in {1, 2}
    /\ pc = "conv_ready"
    /\ \E term \in BOOLEAN, lines \in SeqUpTo(LineSet, MaxLines) :
           /\ parts = DocParts(lines, term)
           /\ contents = TextOf(lines, term)
    /\ result = NoResult
    /\ result2 = NoResult
    /\ IdleIO

\* convert_content(contents)
ConvertContentCall ==
    /\ pc = "conv_ready"
    /\ result' = convert_content(variant, contents)
    /\ pc' = IF result'.exc = "none" THEN "conv_done" ELSE "conv_raised"
    /\ UNCHANGED <<variant, parts, contents, result2, fs, walk, io, log, trace>>

\* convert_content(convert_content(contents)): the converter run on its own
\* output.
ConvertAgainCall ==
    /\ pc = "conv_done"
    /\ result2' = convert_content(variant, result.text)
    /\ pc' = IF result2'.exc = "none" THEN "conv_done2" ELSE "conv_raised2"
    /\ UNCHANGED <<variant, parts, contents, result, fs, walk, io, log, trace>>

NextConv == ConvertContentCall \/ ConvertAgainCall

SpecConv == InitConv /\ [][NextConv]_vars

InitBlank ==
    /\ variant = 2
    /\ pc = "blank_ready"
    /\ \E term \in BOOLEAN, lines \in SeqUpTo(LineSet, MaxLines) :
           /\ parts = DocParts(lines, term)
           /\ contents = TextOf(lines, term)
    /\ result = NoResult
    /\ result2 = NoResult
    /\ IdleIO

\* remove_blank_lines(contents)
RemoveBlankLinesCall ==
    /\ pc = "blank_ready"
    /\ result' = remove_blank_lines(contents)
    /\ pc' = IF result'.exc = "none" THEN "blank_done" ELSE "blank_raised"
    /\ UNCHANGED <<variant, parts, contents, result2, fs, walk, io, log, trace>>

NextBlank == RemoveBlankLinesCall

SpecBlank == InitBlank /\ [][NextBlank]_vars

----------------------------------------------------------------------------
(* Paths, files and the command line                                       *)

MaxEntries == 2

DotVtt == <<".", "v", "t", "t">>

DotSrt == <<".", "s", "r", "t">>

\* sub in s (python's "in" on strings)
Contains(s, sub) == \E i \in 1..(Len(s) - Len(sub) + 1) : MatchLit(s, i, sub)

\* s.replace(old, new): every occurrence, left to right, without overlap.
RECURSIVE ReplaceFrom(_, _, _, _, _)
ReplaceFrom(s, old, new, i, acc) ==
    LET next == {j \in i..(Len(s) - Len(old) + 1) : MatchLit(s, j, old)}
        j == Min(next)
    IN  IF next = {} THEN acc \o SubSeq(s, i, Len(s))
        ELSE ReplaceFrom(s, old, new, j + Len(old), acc \o SubSeq(s, i, j - 1) \o new)

Replace(s, old, new) == ReplaceFrom(s, old, new, 1, <<>>)

\* filename.split(os.sep)[-1]
BaseName(path) ==
    LET seps == {i \in 1..Len(path) : path[i] = "/"}
    IN  IF seps = {} THEN path
        ELSE SubSeq(path, (CHOOSE i \in seps : \A j \in seps : j <= i) + 1, Len(path))

\* os.path.join(top, name)
PathJoin(top, name) ==
    IF Len(top) = 0 \/ top[Len(top)] = "/" THEN top \o name
    ELSE top \o <<"/">> \o name

\* str(data.encode(encoding)) under python 3: the repr of the bytes, here for
\* text without quotes or characters outside ASCII.
RECURSIVE BytesEscape(_)
BytesEscape(s) ==
    LET h == Len(s) \div 2
    IN  IF Len(s) = 0 THEN <<>>
        ELSE IF Len(s) = 1
        THEN (IF s[1] = NL THEN <<"\\", "n">>
              ELSE IF s[1] = "\\" THEN <<"\\", "\\">>
              ELSE s)
        ELSE BytesEscape(SubSeq(s, 1, h)) \o BytesEscape(SubSeq(s, h + 1, Len(s)))

BytesRepr(s) == <<"b", "'">> \o BytesEscape(s) \o <<"'">>

\* The entries a directory can hold, by name.
FileA == <<"a", ".", "v", "t", "t">>
FileB == <<"b", ".", "t", "x", "t">>
FileC == <<"c", ".", "v", "t", "t">>
FileE == <<"e", ".", "v", "t", "t">>
SubDir == <<"s", "u", "b">>
Special == <<"n">>

NameSet == {FileA, FileB, FileC, SubDir, Special}

RootSet == {<<"d">>, <<"d", ".", "v", "t", "t">>}

EncodingSet == {"utf-8", "latin-1"}

\* os.stat / os.path.isdir of an entry: a directory, a regular file, or
\* something else (a socket, a device).
KindOf(path) ==
    CASE BaseName(path) = SubDir -> "dir"
      [] BaseName(path) = Special -> "other"
      [] OTHER -> "file"

\* os.listdir of the subdirectory.
SubListing == <<FileE>>

\* What reading the file yields when it decodes.
ContentOf(name) ==
    CASE name = FileA -> VttLine \o <<NL>> \o TaggedText \o <<NL>>
      [] name = FileC -> VttLine \o <<NL>> \o Identifier \o <<NL>>
      [] name = Special -> <<>>
      [] OTHER -> <<"h", "i", NL>>

\* Sequences of distinct names, at most n long: the listings of the root.
Listings(n) ==
    {l \in SeqUpTo(NameSet, n) : \A i, j \in 1..Len(l) : i # j => l[i] # l[j]}

\* The files written so far with the file at path replaced by rec.
Put(files, rec) == {f \in files : f.path # rec.path} \cup {rec}

ReadEvent(path, enc, ok) ==
    [op |-> "read", src |-> path, path |-> path, text |-> <<>>, enc |-> enc,
     ok |-> ok, retry |-> FALSE]

WriteEvent(path, text, enc, ok, retry) ==
    [op |-> "write", src |-> <<>>, path |-> path, text |-> text, enc |-> enc,
     ok |-> ok, retry |-> retry]

\* write_file(filename, data, encoding_format) of variant v.  wf says which
\* opens raise IOError: "ok" none, "first" the computed path, "both" the
\* computed path and the base name.  The fallback of variant 2 opens the base
\* name without an encoding and writes str(data.encode(encoding_format)).
write_file(v, filename, data, enc, wf) ==
    LET base == BaseName(filename)
        first == WriteEvent(filename, data, enc, wf = "ok", FALSE)
        again == IF v = 1
                 THEN WriteEvent(base, data, enc, wf = "first", TRUE)
                 ELSE WriteEvent(base, BytesRepr(data), "default", wf = "first", TRUE)
    IN  CASE wf = "ok" ->
               [exc |-> "none", events |-> <<first>>,
                log |-> <<<<"file created", filename>>>>]
          [] wf = "first" ->
               [exc |-> "none", events |-> <<first, again>>,
                log |-> <<<<"file created", base>>>>]
          [] wf = "both" ->
               [exc |-> "IOError", events |-> <<first, again>>, log |-> <<>>]

\* convert_content of the files of the model, computed once.
Converted ==
    [v \in {1, 2}, name \in NameSet \cup {FileE} |-> convert_content(v, ContentOf(name))]

\* The files the write events store.
RECURSIVE Store(_, _)
Store(files, events) ==
    IF Len(events) = 0 THEN files
    ELSE Store(IF events[1].ok
               THEN Put(files, [path |-> events[1].path, text |-> events[1].text,
                                enc |-> events[1].enc])
               ELSE files,
               Tail(events))

\* The write events of a call, labelled with the file they stem from.
EventsOf(w, filename) ==
    [i \in 1..Len(w.events) |-> [w.events[i] EXCEPT !.src = filename]]

\* The end of process: write_file has left the outcome w.
ProcessWritten(filename, w) ==
    [exc |-> w.exc,
     log |-> Append(log, <<"file being read", filename>>) \o w.log,
     trace |-> Append(trace, ReadEvent(filename, io.encoding, TRUE))
                   \o EventsOf(w, filename),
     fs |-> Store(fs, EventsOf(w, filename))]

\* process after read_file: conv is what convert_content made of the
\* contents (dec says whether the bytes decoded at all).
ProcessRead(filename, dec, wf, conv) ==
    IF ~dec \/ conv.exc # "none"
    THEN [exc |-> IF ~dec THEN "UnicodeDecodeError" ELSE conv.exc,
          log |-> Append(log, <<"file being read", filename>>),
          trace |-> Append(trace, ReadEvent(filename, io.encoding, dec)),
          fs |-> fs]
    ELSE ProcessWritten(filename,
            write_file(variant, Replace(filename, DotVtt, DotSrt), conv.text,
                       io.encoding, wf))

\* process(filename, encoding_format): read, convert, write.  The outcome:
\* the exception that leaves process (or "none") and the log, trace and
\* files after it.
process(filename, dec, wf) ==
    ProcessRead(filename, dec, wf, Converted[variant, BaseName(filename)])

Untouched == [exc |-> "none", log |-> log, trace |-> trace, fs |-> fs]

\* ConvertDirectories.convert_vtt_to_str(file) without its except clause.
convert_vtt_to_str_uncaught(file, dec, wf) ==
    IF Contains(file, DotVtt) THEN process(file, dec, wf) ELSE Untouched

\* except UnicodeDecodeError: print(...)
CatchDecodeError(file, r) ==
    IF r.exc = "UnicodeDecodeError"
    THEN [r EXCEPT !.exc = "none",
                   !.log = Append(r.log, <<"UnicodeDecodeError", file>>)]
    ELSE r

\* ConvertDirectories.convert_vtt_to_str(file): a decode failure is caught
\* and printed, any other exception leaves the callback.
convert_vtt_to_str(file, dec, wf) ==
    IF Contains(file, DotVtt) THEN CatchDecodeError(file, process(file, dec, wf))
    ELSE Untouched

\* ConvertFile.convert(): nothing catches what process raises.
convert_file(pathname, dec, wf) ==
    IF Contains(pathname, DotVtt) THEN process(pathname, dec, wf) ELSE Untouched

WriteOutcomes == {"ok", "first", "both"}

\* The command line: a single file, a directory (with its listing), or a
\* path that is neither.
Invocations ==
    {[pathname |-> PathJoin(r, f), kind |-> "file", recursive |-> rec,
      encoding |-> e, listing |-> <<>>] :
        r \in RootSet, f \in {FileA, FileB}, rec \in {FALSE}, e \in EncodingSet}
    \cup
    {[pathname |-> r, kind |-> "dir", recursive |-> rec,
      encoding |-> e, listing |-> l] :
        r \in RootSet, rec \in BOOLEAN, e \in EncodingSet, l \in Listings(MaxEntries)}
    \cup
    {[pathname |-> <<"z">>, kind |-> "none", recursive |-> FALSE,
      encoding |-> e, listing |-> <<>>] : e \in EncodingSet}

Init ==
    /\ variant \in {1, 2}
    /\ pc = "main"
    /\ parts = NoParts
    /\ contents = <<>>
    /\ result = NoResult
    /\ result2 = NoResult
    /\ fs = {}
    /\ walk = <<>>
    /\ io \in Invocations
    /\ log = <<>>
    /\ trace = <<>>

\* main(): the path is a file, a directory, or neither (usage is shown).
Main ==
    /\ pc = "main"
    /\ CASE io.kind = "file" ->
              /\ pc' = "file"
              /\ log' = Append(log, <<"file being converted", io.pathname>>)
              /\ walk' = walk
              /\ result' = result
         [] io.kind = "dir" ->
              /\ pc' = "walking"
              /\ log' = Append(log, <<"directory being converted", io.pathname>>)
              /\ walk' = [i \in 1..Len(io.listing) |->
                             PathJoin(io.pathname, io.listing[i])]
              /\ result' = result
         [] io.kind = "none" ->
              /\ pc' = "done"
              /\ log' = log \o <<<<"pathname is not a file or directory", io.pathname>>,
                                 <<"usage", <<>>>>>>
              /\ walk' = walk
              /\ result' = Ret(<<>>)
    /\ UNCHANGED <<variant, parts, contents, result2, fs, io, trace>>

\* The state after a call that left the outcome r: the run goes on at
\* next with the result res, or ends with the exception that left the call.
Outcome(r, next, res) ==
    /\ log' = r.log
    /\ trace' = r.trace
    /\ fs' = r.fs
    /\ pc' = IF r.exc = "none" THEN next ELSE "raised"
    /\ result' = IF r.exc = "none" THEN res ELSE Raise(r.exc)

\* ConvertFile(pathname, encoding).convert()
ConvertFileCall ==
    /\ pc = "file"
    /\ \E dec \in BOOLEAN, wf \in WriteOutcomes :
          Outcome(convert_file(io.pathname, dec, wf), "done", Ret(<<>>))
    /\ UNCHANGED <<variant, parts, contents, result2, walk, io>>

\* One turn of the loop of _walk_dir or _walk_tree on a path the callback is
\* called for: a regular file, or in _walk_dir anything that is no directory.
VisitFile ==
    /\ pc = "walking"
    /\ Len(walk) > 0
    /\ IF io.recursive THEN KindOf(walk[1]) = "file" ELSE KindOf(walk[1]) # "dir"
    /\ \E dec \in BOOLEAN, wf \in WriteOutcomes :
          Outcome(convert_vtt_to_str(walk[1], dec, wf), "walking", result)
    /\ walk' = Tail(walk)
    /\ UNCHANGED <<variant, parts, contents, result2, io>>

\* _walk_tree: a directory is descended into before the rest of the listing.
EnterDirectory ==
    /\ pc = "walking"
    /\ Len(walk) > 0
    /\ io.recursive
    /\ KindOf(walk[1]) = "dir"
    /\ walk' = [i \in 1..Len(SubListing) |-> PathJoin(walk[1], SubListing[i])]
                  \o Tail(walk)
    /\ UNCHANGED <<variant, pc, parts, contents, result, result2, fs, io, log, trace>>

\* _walk_dir: a directory is passed over.
SkipDirectory ==
    /\ pc = "walking"
    /\ Len(walk) > 0
    /\ ~io.recursive
    /\ KindOf(walk[1]) = "dir"
    /\ walk' = Tail(walk)
    /\ UNCHANGED <<variant, pc, parts, contents, result, result2, fs, io, log, trace>>

\* _walk_tree: neither a directory nor a regular file.
SkipSpecial ==
    /\ pc = "walking"
    /\ Len(walk) > 0
    /\ io.recursive
    /\ KindOf(walk[1]) = "other"
    /\ log' = Append(log, <<"Skipping", walk[1]>>)
    /\ walk' = Tail(walk)
    /\ UNCHANGED <<variant, pc, parts, contents, result, result2, fs, io, trace>>

\* The listing is exhausted: ConvertDirectories.convert() returns.
WalkDone ==
    /\ pc = "walking"
    /\ Len(walk) = 0
    /\ pc' = "done"
    /\ result' = Ret(<<>>)
    /\ UNCHANGED <<variant, parts, contents, result2, fs, walk, io, log, trace>>

Next ==
    \/ Main
    \/ ConvertFileCall
    \/ VisitFile
    \/ EnterDirectory
    \/ SkipDirectory
    \/ SkipSpecial
    \/ WalkDone

Spec == Init /\ [][Next]_vars

----------------------------------------------------------------------------
(* Properties                                                              *)

\* Every timestamp line of the text is directly preceded by one line that
\* holds its sequence number in decimal and nothing else, and the line
\* before that one is not a further digits-only line.
Numbered(text) ==
    LET L == LinesOf(text)
    IN  \A k \in 1..Len(L) :
            has_timestamp(L[k]) =>
                /\ k >= 2
                /\ IsDecimalOf(L[k - 1], Rank(L, k))
                /\ (k >= 3 => ~SimpleIdentifier(L[k - 2]))

\* The text never holds two empty lines in a row.
NoDoubleBlank(text) ==
    LET L == LinesOf(text)
    IN  \A k \in 1..(Len(L) - 1) : ~(L[k] = <<>> /\ L[k + 1] = <<>>)

EndsWithNewline(text) == Len(text) > 0 /\ text[Len(text)] = NL

\* The timestamp pattern of convert_timestamp matches the line of the input
\* (the line is one convert_timestamp handles).
Handled == MatchFindVtt(contents, Len(parts.prefix) + 1).ok

\* C1: add_sequence_numbers puts, directly before each line has_timestamp
\* recognizes and nowhere else, a line with a decimal counter; the counters
\* are 1, 2, ..., n in document order, and every input line is in the output,
\* unchanged and in order.
C1_SequenceNumbers ==
    pc = "seq_done" =>
        LET inL == Split(contents)
            outL == LinesOf(result.text)
        IN  /\ EndsWithNewline(result.text)
            /\ Len(outL) = Len(inL) + Rank(inL, Len(inL))
            /\ \A k \in 1..Len(inL) :
                  /\ outL[k + Rank(inL, k)] = inL[k]
                  /\ has_timestamp(inL[k]) =>
                        IsDecimalOf(outL[k + Rank(inL, k) - 1], Rank(inL, k))

\* Ten cues or more have been numbered: the counter has two digits.
C1_Witness ==
    /\ pc = "seq_done"
    /\ Rank(Split(contents), Len(Split(contents))) >= 10

\* C2: a timestamp line convert_timestamp handles whose two sides both omit
\* the hour becomes 00:MM:SS,mmm --> 00:MM:SS,mmm, and one whose two sides
\* omit hour and minute becomes 00:00:SS,mmm --> 00:00:SS,mmm, the given
\* digits unchanged.
C2_ShortShapesPadded ==
    (/\ pc = "ts_done"
     /\ parts.left = parts.right
     /\ parts.left \in {0, 1}
     /\ Handled)
    => result.text = parts.prefix \o TsExpected(parts) \o <<NL>>

\* A seconds-only line with cue settings has been converted.
C2_Witness ==
    /\ pc = "ts_done"
    /\ parts.left = 0
    /\ parts.right = 0
    /\ parts.settings # <<>>
    /\ Handled
    /\ result.text = parts.prefix \o TsExpected(parts) \o <<NL>>

\* C3: a timestamp line with HH:MM:SS.mmm on both sides becomes exactly
\* HH:MM:SS,mmm --> HH:MM:SS,mmm: the digits kept, "." replaced by ",", the
\* arrow unchanged and any trailing cue settings removed.
C3_FullShapeSettingsRemoved ==
    (/\ pc = "ts_done"
     /\ parts.left = 2
     /\ parts.right = 2
     /\ parts.term)
    => result.text = parts.prefix \o TsExpected(parts) \o <<NL>>

\* C10: convert_timestamp pads each side on its own: whatever the shapes of
\* the two sides, the line becomes HH:MM:SS,mmm --> HH:MM:SS,mmm with each
\* side's missing fields 00, and has_timestamp recognizes it.
C10_SidesPaddedIndependently ==
    (pc = "ts_done" /\ Handled)
    => /\ result.text = parts.prefix \o TsExpected(parts) \o <<NL>>
       /\ has_timestamp(SubSeq(result.text, Len(parts.prefix) + 1,
                               Len(result.text) - 1))

\* C4: convert_content returns a text for every input; no pass raises.
C4_TransformNeverFails == pc # "conv_raised"

C6_OutputInvariant ==
    (variant = 2 /\ pc = "conv_done")
    => /\ EndsWithNewline(result.text)
       /\ Numbered(result.text)
       /\ NoDoubleBlank(result.text)

\* A cue after two blank lines in a row has been converted and numbered.
C6_Witness ==
    /\ variant = 2
    /\ pc = "conv_done"
    /\ \E k \in 1..(Len(parts.settings) - 2) :
          /\ parts.settings[k] = Blank
          /\ parts.settings[k + 1] = Blank
          /\ parts.settings[k + 2] \in {SrtLine, VttLine}
    /\ \E k \in 1..Len(LinesOf(result.text)) : LinesOf(result.text)[k] = <<"1">>

\* The paths the walk calls the callback for, in order: _walk_dir passes
\* over directories, _walk_tree descends into them and passes over what is
\* neither a directory nor a regular file.
RECURSIVE Visits(_)
Visits(paths) ==
    IF Len(paths) = 0 THEN <<>>
    ELSE (CASE KindOf(paths[1]) = "dir" ->
                 IF io.recursive
                 THEN Visits([i \in 1..Len(SubListing) |->
                                 PathJoin(paths[1], SubListing[i])])
                 ELSE <<>>
            [] KindOf(paths[1]) = "other" ->
                 IF io.recursive THEN <<>> ELSE <<paths[1]>>
            [] OTHER -> <<paths[1]>>)
         \o Visits(Tail(paths))

HasDotVtt(path) == Contains(path, DotVtt)

IsRead(e) == e.op = "read"

\* The files read so far, in order.
ReadPaths == LET r == SelectSeq(trace, IsRead) IN [i \in 1..Len(r) |-> r[i].src]

\* C7: in directory mode a UnicodeDecodeError never leaves convert; each
\* read that failed to decode is reported with the file's name; the files
\* read are, in listing order, all the visited paths that contain ".vtt",
\* and each one that decodes goes on to be written.  In single-file mode a
\* read that fails to decode ends the run with UnicodeDecodeError.
C7_DecodeFailureContained ==
    /\ io.kind = "dir" =>
          /\ result.exc # "UnicodeDecodeError"
          /\ \A i \in 1..Len(trace) :
                (trace[i].op = "read" /\ ~trace[i].ok) =>
                    \E j \in 1..Len(log) : log[j] = <<"UnicodeDecodeError", trace[i].src>>
          /\ pc \in {"walking", "done"} =>
                /\ ReadPaths \o SelectSeq(Visits(walk), HasDotVtt)
                      = SelectSeq(Visits([i \in 1..Len(io.listing) |->
                                              PathJoin(io.pathname, io.listing[i])]),
                                  HasDotVtt)
                /\ \A i \in 1..Len(trace) :
                      (trace[i].op = "read" /\ trace[i].ok) =>
                          /\ i < Len(trace)
                          /\ trace[i + 1].op = "write"
                          /\ trace[i + 1].src = trace[i].src
    /\ io.kind = "file" =>
          ((\E i \in 1..Len(trace) : trace[i].op = "read" /\ ~trace[i].ok)
              => pc = "raised" /\ result = Raise("UnicodeDecodeError"))

\* A directory run has returned after a file that failed to decode was
\* followed by another file that was read and written.
C7_Witness ==
    /\ io.kind = "dir"
    /\ pc = "done"
    /\ \E i, j \in 1..Len(trace) :
          /\ i < j
          /\ trace[i].op = "read" /\ ~trace[i].ok
          /\ trace[j].op = "write" /\ trace[j].ok
          /\ trace[j].src # trace[i].src

\* C8: a write to the computed path that raises IOError is followed by
\* exactly one more write, to the base name of that path, of the same text
\* in the requested encoding; when that one fails too the IOError ends the
\* run; no write is retried otherwise.
C8_FallbackSameText ==
    \A i \in 1..Len(trace) :
        trace[i].op = "write" =>
            /\ trace[i].retry =>
                  /\ i > 1
                  /\ trace[i - 1].op = "write"
                  /\ ~trace[i - 1].retry
                  /\ ~trace[i - 1].ok
                  /\ trace[i].path = BaseName(trace[i - 1].path)
                  /\ trace[i].text = trace[i - 1].text
                  /\ trace[i].enc = io.encoding
                  /\ ~trace[i].ok =>
                        /\ i = Len(trace)
                        /\ pc = "raised"
                        /\ result = Raise("IOError")
            /\ (~trace[i].retry /\ ~trace[i].ok) =>
                  /\ i < Len(trace)
                  /\ trace[i + 1].op = "write"
                  /\ trace[i + 1].retry

\* C9: in non-recursive directory mode every file read or written for is an
\* entry of the root whose own name contains ".vtt", and the path first
\* written to is the input path with ".vtt" replaced by ".srt".
C9_OnlyVttNamedFiles ==
    (io.kind = "dir" /\ ~io.recursive) =>
        \A i \in 1..Len(trace) :
            /\ Contains(BaseName(trace[i].src), DotVtt)
            /\ \E k \in 1..Len(io.listing) :
                  trace[i].src = PathJoin(io.pathname, io.listing[k])
            /\ (trace[i].op = "write" /\ ~trace[i].retry) =>
                  trace[i].path = Replace(trace[i].src, DotVtt, DotSrt)

NonEmpty(line) == line # <<>>

\* A cue block starts at line k of L: a digits-only line followed by a
\* timestamp line, or a timestamp line that no digits-only line precedes.
CueStart(L, k) ==
    \/ SimpleIdentifier(L[k]) /\ k < Len(L) /\ has_timestamp(L[k + 1])
    \/ has_timestamp(L[k]) /\ ~(k > 1 /\ SimpleIdentifier(L[k - 1]))

\* The lines of L with one empty line put before each cue block but the
\* first cue block of L.
RECURSIVE Separated(_, _, _)
Separated(L, k, seen) ==
    IF k > Len(L) THEN <<>>
    ELSE (IF CueStart(L, k) /\ seen THEN <<<<>>, L[k]>> ELSE <<L[k]>>)
         \o Separated(L, k + 1, seen \/ CueStart(L, k))

\* C11: remove_blank_lines (variant 2) returns the non-empty lines of the
\* document, in order, with exactly one empty line directly before each cue
\* block except the first cue block of the document, wherever that block
\* stands; a document without cues gets no empty line.
C11_BlankBeforeLaterCues ==
    pc \in {"blank_done", "blank_raised"} =>
        /\ result.exc = "none"
        /\ result.text = Join(Separated(SelectSeq(Split(contents), NonEmpty), 1, FALSE))

\* The line is a timestamp line of the input: in SRT shape already, or one
\* convert_timestamp rewrites.
InputTimestamp(line) ==
    has_timestamp(line) \/ MatchFindVtt(Append(line, NL), 1).ok

\* Line k of the input L is text the conversion has to keep: not empty, no
\* header, no timestamp line, and no digits-only line that a timestamp line
\* directly follows.
CueText(L, k) ==
    /\ L[k] # <<>>
    /\ L[k] # Header
    /\ ~InputTimestamp(L[k])
    /\ SimpleIdentifier(L[k]) => ~(k < Len(L) /\ InputTimestamp(L[k + 1]))

\* The lines a occur among the lines b, from b[j] on, in the order of a.
RECURSIVE OccursInOrder(_, _, _)
OccursInOrder(a, b, j) ==
    IF Len(a) = 0 THEN TRUE
    ELSE IF j > Len(b) THEN FALSE
    ELSE IF b[j] = a[1] THEN OccursInOrder(Tail(a), b, j + 1)
    ELSE OccursInOrder(a, b, j + 1)

\* The text lines of the input, in order, with their markup stripped.
CueTextOf(L) ==
    LET idx == SelectSeq([k \in 1..Len(L) |-> k], LAMBDA k : CueText(L, k))
    IN  [i \in 1..Len(idx) |-> strip_tags(L[idx[i]])]

\* C12: convert_content (variant 2) loses no cue text: every line of the
\* input that is not empty, no header, no timestamp line and no digits-only
\* line directly followed by a timestamp line is in the output, in the
\* original order.
C12_NoCueTextLost ==
    (variant = 2 /\ pc = "conv_done")
    => OccursInOrder(CueTextOf(Split(contents)), LinesOf(result.text), 1)

====
